---- MODULE Spec2Model ----
(***************************************************************************)
(* Model of qcelemental/molparse/to_string.py: to_string, _atoms_formatter *)
(* and formula_generator.                                                  *)
(*                                                                         *)
(* Python strings are sequences of one-character strings, so that padding, *)
(* lower-casing, joining with newlines and sorting are computed and not    *)
(* assumed.  Python lists are 1-indexed sequences here (index iat of the   *)
(* code is iat+1).  A float is an exact fraction <<numerator, denominator>>*)
(* with a positive denominator; a coordinate x of a record is <<x, 1>>.    *)
(* A dict is a function whose DOMAIN is the set of keys present.  The      *)
(* local variables of a call are the dict `frame`, holding exactly the     *)
(* names that have been assigned.                                          *)
(***************************************************************************)
EXTENDS Integers, Sequences, FiniteSets, TLC

VARIABLES molrec, args, pc, op, frame, ret

vars == <<molrec, args, pc, op, frame, ret>>

----------------------------------------------------------------------------
(* Bounds of the model *)

\* largest number of atoms of a record whose formatting is explored in full
MaxAtoms == 2

\* longest element list handed to formula_generator on its own
MaxElems == 5

----------------------------------------------------------------------------
(* Python values *)

None == <<"None">>

Absent == <<"absent">>

Angstrom == <<"A", "n", "g", "s", "t", "r", "o", "m">>

Bohr == <<"B", "o", "h", "r">>

Nanometer == <<"n", "m">>

Newline == "\n"

Space == " "

DigitChars == <<"0", "1", "2", "3", "4", "5", "6", "7", "8", "9">>

UpperChars == <<"A", "B", "C", "G", "H", "O">>

LowerChars == <<"a", "b", "c", "g", "h", "o">>

\* code points of the characters that occur in element symbols
Ord == [c \in {"A", "C", "O", "a", "g"} |->
          CASE c = "A" -> 65 [] c = "C" -> 67 [] c = "O" -> 79
            [] c = "a" -> 97 [] c = "g" -> 103]

\* the external constant qcel.constants.bohr2angstroms (0.52917721067),
\* kept to six decimal places
bohr2angstroms == <<529177, 1000000>>

One == <<1, 1>>

Reciprocal(q) == <<q[2], q[1]>>

\* the product of two floats
Times(p, q) == <<p[1] * q[1], p[2] * q[2]>>

RECURSIVE Pow10(_)
Pow10(n) == IF n = 0 THEN 1 ELSE 10 * Pow10(n - 1)

RECURSIVE Spaces(_)
Spaces(n) == IF n <= 0 THEN <<>> ELSE <<Space>> \o Spaces(n - 1)

RECURSIVE Zeros(_)
Zeros(n) == IF n <= 0 THEN <<>> ELSE <<"0">> \o Zeros(n - 1)

\* str(n) of an int
RECURSIVE str(_)
str(n) == IF n < 0 THEN <<"-">> \o str(0 - n)
          ELSE IF n < 10 THEN <<DigitChars[n + 1]>>
          ELSE str(n \div 10) \o <<DigitChars[(n % 10) + 1]>>

\* str.lower() of one character
LowerChar(c) ==
  IF \E i \in 1..Len(UpperChars) : UpperChars[i] = c
  THEN LowerChars[CHOOSE i \in 1..Len(UpperChars) : UpperChars[i] = c]
  ELSE c

lower(s) == [i \in 1..Len(s) |-> LowerChar(s[i])]

\* '{:{width}}'.format(s, width=width): a str is left-aligned, never cut
FormatStr(s, width) == s \o Spaces(width - Len(s))

\* '{:.{prec}f}' of the fraction q: round half to even at prec decimals
FixedDigits(q, prec) ==
  LET neg == q[1] < 0
      a == IF neg THEN 0 - q[1] ELSE q[1]
      scaled == a * Pow10(prec)
      fl == scaled \div q[2]
      rem == scaled % q[2]
      rounded == IF 2 * rem > q[2] \/ (2 * rem = q[2] /\ fl % 2 = 1)
                 THEN fl + 1 ELSE fl
      ip == str(rounded \div Pow10(prec))
      fp == str(rounded % Pow10(prec))
  IN (IF neg THEN <<"-">> ELSE <<>>) \o ip \o
     (IF prec > 0 THEN <<".">> \o Zeros(prec - Len(fp)) \o fp ELSE <<>>)

\* fxyz.format(x, width=width, prec=prec) with fxyz = '{:>{width}.{prec}f}'
fxyz(q, width, prec) ==
  LET d == FixedDigits(q, prec) IN Spaces(width - Len(d)) \o d

\* sep.join(parts)
RECURSIVE join(_, _)
join(sep, parts) ==
  IF Len(parts) = 0 THEN <<>>
  ELSE IF Len(parts) = 1 THEN parts[1]
  ELSE parts[1] \o sep \o join(sep, Tail(parts))

\* template.format(**atominfo); a template is a sequence whose items are
\* literal characters or the replacement fields "{elea}" .. "{elbl}"
RECURSIVE format(_, _)
format(template, atominfo) ==
  IF Len(template) = 0 THEN <<>>
  ELSE LET t == Head(template)
           piece == CASE t = "{elea}" -> atominfo.elea
                      [] t = "{elez}" -> atominfo.elez
                      [] t = "{elem}" -> atominfo.elem
                      [] t = "{mass}" -> atominfo.mass
                      [] t = "{elbl}" -> atominfo.elbl
                      [] OTHER -> <<t>>
       IN piece \o format(Tail(template), atominfo)

Return(v) == [kind |-> "return", exc |-> "", value |-> v]

Raise(e, v) == [kind |-> "raise", exc |-> e, value |-> v]

NoRet == [kind |-> "none", exc |-> "", value |-> <<>>]

\* the names bound at module level: the imports and the three functions
ModuleGlobals ==
  {"collections", "np", "qcel", "to_string", "_atoms_formatter", "formula_generator"}

\* raise Name(arg): the name is looked up first
RaiseNamed(name, arg) ==
  IF name \in ModuleGlobals THEN Raise(name, arg) ELSE Raise("NameError", <<name>>)

----------------------------------------------------------------------------
(* formula_generator *)

\* Python's < on str: by code point, a proper prefix is smaller
RECURSIVE StrLess(_, _)
StrLess(s, t) ==
  IF Len(t) = 0 THEN FALSE
  ELSE IF Len(s) = 0 THEN TRUE
  ELSE IF Ord[s[1]] # Ord[t[1]] THEN Ord[s[1]] < Ord[t[1]]
  ELSE StrLess(Tail(s), Tail(t))

\* collections.Counter(elem)
Counter(elem) ==
  [el \in {elem[i] : i \in 1..Len(elem)} |->
     Cardinality({i \in 1..Len(elem) : elem[i] = el})]

\* sorted(counted.items()): the keys are distinct, so the key decides
RECURSIVE SortedItems(_, _)
SortedItems(counted, keys) ==
  IF keys = {} THEN <<>>
  ELSE LET el == CHOOSE k \in keys : \A o \in keys \ {k} : StrLess(k, o)
       IN <<<<el, counted[el]>>>> \o SortedItems(counted, keys \ {el})

\* variant: the count is written even when it is 1
RECURSIVE JoinItems_AlwaysCount(_)
JoinItems_AlwaysCount(items) ==
  IF Len(items) = 0 THEN <<>>
  ELSE items[1][1] \o str(items[1][2]) \o JoinItems_AlwaysCount(Tail(items))

RECURSIVE JoinItems(_)
JoinItems(items) ==
  IF Len(items) = 0 THEN <<>>
  ELSE LET el == items[1][1]
           cnt == items[1][2]
       IN (IF cnt = 1 THEN el ELSE el \o str(cnt)) \o JoinItems(Tail(items))

formula_generator(elem) ==
  LET counted == Counter(elem)
  IN JoinItems(SortedItems(counted, DOMAIN counted))

----------------------------------------------------------------------------
(* _atoms_formatter *)

PerAtomKeys == <<"elea", "elez", "elem", "mass", "elbl">>

\* variant: the sentinel -1 of elea is not replaced by ''
AtomInfo_KeepsSentinel(m, iat) ==
  [elea |-> str(m.elea[iat]),
   elez |-> str(m.elez[iat]),
   elem |-> m.elem[iat],
   mass |-> str(m.mass[iat]),
   elbl |-> m.elbl[iat]]

\* the dict literal of lines 128-132; ints are kept as the text that
\* str.format substitutes for them
AtomInfo(m, iat) ==
  [elea |-> IF m.elea[iat] = -1 THEN <<>> ELSE str(m.elea[iat]),
   elez |-> str(m.elez[iat]),
   elem |-> m.elem[iat],
   mass |-> str(m.mass[iat]),
   elbl |-> m.elbl[iat]]

\* ghost_format == '' (line 138)
GhostSuppressed(ghost_format) == ghost_format = <<>>

\* lines 135/141 and 144-145: the label, then the coordinates of row iat
AtomLine(template, atominfo, geom, iat, width, prec, sp) ==
  join(sp, <<FormatStr(format(template, atominfo), width)>> \o
           [j \in 1..3 |-> fxyz(geom[iat][j], width, prec)])

\* variant: the loop stops at the shortest of geom and the per-atom lists
NumRows_Shortest(m, geom) ==
  CHOOSE n \in 0..Len(geom) :
    /\ \A k \in {"elea", "elez", "elem", "mass", "elbl", "real"} : n <= Len(m[k])
    /\ \A n2 \in (n + 1)..Len(geom) :
         \E k \in {"elea", "elez", "elem", "mass", "elbl", "real"} : n2 > Len(m[k])

\* nat = geom.shape[0] (line 121)
NumRows(m, geom) == Len(geom)

\* the loop of lines 126-145, from index iat on, with `atoms` built so far
RECURSIVE AtomsLoop(_, _, _, _, _)
AtomsLoop(m, geom, c, iat, atoms) ==
  IF iat > NumRows(m, geom) THEN Return(atoms)
  ELSE IF \E k \in 1..Len(PerAtomKeys) : iat > Len(m[PerAtomKeys[k]])
  THEN Raise("IndexError", <<>>)
  ELSE IF iat > Len(m.real) THEN Raise("IndexError", <<>>)
  ELSE IF m.real[iat]
  THEN AtomsLoop(m, geom, c, iat + 1,
         Append(atoms, AtomLine(c.atom_format, AtomInfo(m, iat), geom, iat,
                                c.width, c.prec, c.sp)))
  ELSE IF GhostSuppressed(c.ghost_format)
  THEN AtomsLoop(m, geom, c, iat + 1, atoms)
  ELSE AtomsLoop(m, geom, c, iat + 1,
         Append(atoms, AtomLine(c.ghost_format, AtomInfo(m, iat), geom, iat,
                                c.width, c.prec, c.sp)))

_atoms_formatter(m, geom, atom_format, ghost_format, width, prec, sp) ==
  AtomsLoop(m, geom,
            [atom_format |-> atom_format, ghost_format |-> ghost_format,
             width |-> width, prec |-> prec, sp |-> Spaces(sp)],
            1, <<>>)

----------------------------------------------------------------------------
(* to_string *)

\* variant: Bohr to Angstrom undoes input_units_to_au when the record has it
UnitFactor_BohrUsesInput(m, units) ==
  CASE m.units = Angstrom /\ units = Angstrom -> One
    [] m.units = Angstrom /\ units = Bohr ->
         IF "input_units_to_au" \in DOMAIN m
         THEN m.input_units_to_au
         ELSE Reciprocal(bohr2angstroms)
    [] m.units = Bohr /\ units = Angstrom ->
         IF "input_units_to_au" \in DOMAIN m
         THEN Reciprocal(m.input_units_to_au)
         ELSE bohr2angstroms
    [] m.units = Bohr /\ units = Bohr -> One
    [] OTHER -> None

\* lines 52-64; None when no branch of the table applies
UnitFactor(m, units) ==
  CASE m.units = Angstrom /\ units = Angstrom -> One
    [] m.units = Angstrom /\ units = Bohr ->
         IF "input_units_to_au" \in DOMAIN m
         THEN m.input_units_to_au
         ELSE Reciprocal(bohr2angstroms)
    [] m.units = Bohr /\ units = Angstrom -> bohr2angstroms
    [] m.units = Bohr /\ units = Bohr -> One
    [] OTHER -> None

\* line 64
UnitsError(m, units) == RaiseNamed("ValidationError", units)

\* variant: the record's own geom is scaled in place
ScaledGeom_InPlace(m, factor) ==
  [molrec |-> [m EXCEPT !.geom =
                 [k \in 1..Len(m.geom) |-> Times(m.geom[k], factor)]],
   geom |-> [i \in 1..(Len(m.geom) \div 3) |->
               [j \in 1..3 |-> Times(m.geom[3 * (i - 1) + j], factor)]]]

\* line 65: np.array copies the list, reshape and * build new arrays
ScaledGeom(m, factor) ==
  [molrec |-> m,
   geom |-> [i \in 1..(Len(m.geom) \div 3) |->
               [j \in 1..3 |-> Times(m.geom[3 * (i - 1) + j], factor)]]]

\* line 67: dict.get reads, it does not store the default
GetName(m) ==
  [molrec |-> m,
   name |-> IF "name" \in DOMAIN m THEN m.name ELSE formula_generator(m.elem)]

\* line 68
Tagline(name) ==
  <<"a", "u", "t", "o", "-", "g", "e", "n", "e", "r", "a", "t", "e", "d", " ", "b", "y", " ", "q", "c", "d", "b", " ", "f", "r", "o", "m", " ", "m", "o", "l", "e", "c", "u", "l", "e", " ">> \o name

DefaultAtomFormat == <<"{elem}">>

DefaultGhostFormat == <<"@", "{elem}">>

ForcedGhostFormat == <<"G", "H">>

\* variant: every dtype keeps the caller's atom template
AtomFormatFor_KeepsCaller(dtype, atom_format) ==
  IF atom_format = None THEN DefaultAtomFormat ELSE atom_format

\* variant: an empty ghost template counts as not given
GhostFormatFor_EmptyIsDefault(dtype, ghost_format) ==
  IF dtype = "xyz"
  THEN (IF ghost_format = None \/ ghost_format = <<>>
        THEN DefaultGhostFormat ELSE ghost_format)
  ELSE ForcedGhostFormat

\* lines 71-72, 87-88, 97-98: the templates each dtype formats with
AtomFormatFor(dtype, atom_format) ==
  IF dtype = "xyz"
  THEN (IF atom_format = None THEN DefaultAtomFormat ELSE atom_format)
  ELSE DefaultAtomFormat

GhostFormatFor(dtype, ghost_format) ==
  IF dtype = "xyz"
  THEN (IF ghost_format = None THEN DefaultGhostFormat ELSE ghost_format)
  ELSE ForcedGhostFormat

\* line 77
XyzFirstLine(nat, units) ==
  str(nat) \o (IF units = Bohr THEN <<" ", "a", "u">> ELSE <<>>)

\* line 102
NwchemFirstLine(units) == <<"g", "e", "o", "m", "e", "t", "r", "y", " ", "u", "n", "i", "t", "s", " ">> \o lower(units)

\* variant: the symmetry line is written whenever fix_symmetry is not None
SymmLine_NotNone(m) ==
  LET fix_symm == IF "fix_symmetry" \in DOMAIN m THEN m.fix_symmetry ELSE None
  IN IF fix_symm # None
     THEN <<"s", "y", "m", "m", "e", "t", "r", "y", " ">> \o fix_symm
     ELSE <<>>

\* lines 104-107
SymmLine(m) ==
  LET fix_symm == IF "fix_symmetry" \in DOMAIN m THEN m.fix_symmetry ELSE None
  IN IF fix_symm # None /\ fix_symm # <<>>
     THEN <<"s", "y", "m", "m", "e", "t", "r", "y", " ">> \o fix_symm
     ELSE <<>>

\* variant: any other dtype is formatted as xyz
Branch_ElseXyz(dtype) ==
  IF dtype = "cfour" THEN "cfour"
  ELSE IF dtype = "nwchem" THEN "nwchem"
  ELSE "xyz"

\* the branch of lines 70-112 that dtype selects
Branch(dtype) ==
  IF dtype = "xyz" THEN "xyz"
  ELSE IF dtype = "cfour" THEN "cfour"
  ELSE IF dtype = "nwchem" THEN "nwchem"
  ELSE "fallthrough"

\* lines 70-112: the locals the branch assigns, and the exception if the
\* formatter raised
Dispatch(m, a, geom, name) ==
  LET br == Branch(a.dtype)
      af == AtomFormatFor(a.dtype, a.atom_format)
      gf == GhostFormatFor(a.dtype, a.ghost_format)
      r == _atoms_formatter(m, geom, af, gf, a.width, a.prec, 2)
      fmts == ("atom_format" :> af) @@ ("ghost_format" :> gf)
  IN IF br = "fallthrough" THEN [locals |-> <<>>, exc |-> NoRet]
     ELSE IF r.kind = "raise" THEN [locals |-> fmts, exc |-> r]
     ELSE LET atoms == r.value
              smol == CASE br = "xyz" ->
                             <<XyzFirstLine(Len(atoms), a.units), name>> \o atoms
                        [] br = "cfour" -> <<Tagline(name)>> \o atoms
                        [] br = "nwchem" ->
                             <<NwchemFirstLine(a.units)>> \o atoms \o
                             <<SymmLine(m), <<"e", "n", "d">>>>
          IN [locals |-> fmts @@ ("atoms" :> atoms) @@ ("smol" :> smol),
              exc |-> NoRet]

\* line 114
FinalReturn(locals) ==
  IF "smol" \in DOMAIN locals
  THEN Return(join(<<Newline>>, locals.smol) \o <<Newline>>)
  ELSE Raise("UnboundLocalError", <<"smol">>)

\* the whole call: the record afterwards, the locals assigned, the outcome
to_string(m, a) ==
  LET factor == UnitFactor(m, a.units)
  IN IF factor = None
     THEN [molrec |-> m, frame |-> <<>>, ret |-> UnitsError(m, a.units)]
     ELSE IF Len(m.geom) % 3 # 0
     THEN [molrec |-> m, frame |-> ("factor" :> factor),
           ret |-> Raise("ValueError", <<>>)]
     ELSE LET g == ScaledGeom(m, factor)
              n == GetName(g.molrec)
              f0 == ("factor" :> factor) @@ ("geom" :> g.geom) @@ ("name" :> n.name)
              d == Dispatch(n.molrec, a, g.geom, n.name)
              f1 == d.locals @@ f0
          IN [molrec |-> n.molrec, frame |-> f1,
              ret |-> IF d.exc.kind = "raise" THEN d.exc ELSE FinalReturn(f1)]

----------------------------------------------------------------------------
(* Inputs *)

\* the atoms records are built from: a real atom without mass number, a
\* ghost with one, a real two-letter element with one, a ghost without
Catalogue ==
  {[elem |-> <<"C">>, elez |-> 6, elea |-> -1, mass |-> 12, elbl |-> <<>>,
    real |-> TRUE, xyz |-> <<0, 1, -2>>],
   [elem |-> <<"O">>, elez |-> 8, elea |-> 16, mass |-> 16, elbl |-> <<"1">>,
    real |-> FALSE, xyz |-> <<2, 0, -1>>],
   [elem |-> <<"C", "a">>, elez |-> 20, elea |-> 40, mass |-> 40, elbl |-> <<>>,
    real |-> TRUE, xyz |-> <<-1, 2, 0>>],
   [elem |-> <<"A", "g">>, elez |-> 47, elea |-> -1, mass |-> 107, elbl |-> <<"x">>,
    real |-> FALSE, xyz |-> <<1, -2, 2>>]}

\* the atoms of the records that are formatted with every option
CoreCatalogue == {a \in Catalogue : a.elem # <<"A", "g">>}

AtomLists(atoms, lo, hi) == UNION {[1..n -> atoms] : n \in lo..hi}

UnitValues == {Angstrom, Bohr, Nanometer}

CustomAtomFormat == <<"{elem}", "{elea}", "_", "{elez}">>

CustomGhostFormat == <<"@", "{elbl}", "{mass}">>

AtomFormats == {None, CustomAtomFormat}

GhostFormats == {None, <<>>, CustomGhostFormat}

Dtypes == {"xyz", "cfour", "nwchem", "psi4"}

SomeInputUnitsToAu == <<189, 100>>

WithKey(m, key, v) == IF v = Absent THEN m ELSE (key :> v) @@ m

\* a well-formed record: N atoms, geom of length 3N
Record(atoms, units) ==
  [units |-> units,
   geom |-> [k \in 1..(3 * Len(atoms)) |-> <<atoms[((k - 1) \div 3) + 1].xyz[((k - 1) % 3) + 1], 1>>],
   elem |-> [i \in 1..Len(atoms) |-> atoms[i].elem],
   elez |-> [i \in 1..Len(atoms) |-> atoms[i].elez],
   elea |-> [i \in 1..Len(atoms) |-> atoms[i].elea],
   mass |-> [i \in 1..Len(atoms) |-> atoms[i].mass],
   elbl |-> [i \in 1..Len(atoms) |-> atoms[i].elbl],
   real |-> [i \in 1..Len(atoms) |-> atoms[i].real]]

WellFormed(m) ==
  /\ Len(m.geom) % 3 = 0
  /\ \A k \in {"elem", "elez", "elea", "mass", "elbl", "real"} :
       3 * Len(m[k]) = Len(m.geom)

\* records with every optional key present or absent
FullRecords ==
  {WithKey(WithKey(WithKey(Record(atoms, u), "name", n), "fix_symmetry", f),
           "input_units_to_au", q) :
     atoms \in AtomLists(CoreCatalogue, 0, MaxAtoms), u \in UnitValues,
     n \in {Absent, <<"w">>}, f \in {Absent, None, <<>>, <<"c", "1">>},
     q \in {Absent, SomeInputUnitsToAu}}

FullArgs ==
  [dtype : Dtypes, units : UnitValues, atom_format : AtomFormats,
   ghost_format : GhostFormats, width : {4}, prec : {2}]

\* records whose lists disagree in length: one list cut or grown by one
\* entry, or geom cut or grown by one coordinate or one row
DropLast(s) == SubSeq(s, 1, Len(s) - 1)

Malformed(m) ==
  {[m EXCEPT ![k] = DropLast(@)] :
     k \in {x \in {"elem", "elez", "elea", "mass", "elbl", "real"} : Len(m[x]) > 0}}
  \cup {[m EXCEPT ![k] = @ \o <<@[1]>>] :
     k \in {x \in {"elem", "elez", "elea", "mass", "elbl", "real"} : Len(m[x]) > 0}}
  \cup {[m EXCEPT !.geom = DropLast(@)] : x \in {1} \cap DOMAIN m.geom}
  \cup {[m EXCEPT !.geom = SubSeq(@, 1, Len(@) - 3)] : x \in {1} \cap DOMAIN m.geom}
  \cup {[m EXCEPT !.geom = @ \o <<One>>], [m EXCEPT !.geom = @ \o <<One, One, One>>]}

MalformedRecords ==
  UNION {Malformed(Record(atoms, u)) :
           atoms \in AtomLists(CoreCatalogue, 0, MaxAtoms), u \in {Angstrom, Nanometer}}

PlainArgs ==
  [dtype : Dtypes, units : {Angstrom, Bohr}, atom_format : {None},
   ghost_format : {None, <<>>}, width : {4}, prec : {2}]

\* longer element lists, for the formula
LongRecords ==
  {Record(atoms, Angstrom) : atoms \in AtomLists(Catalogue, 0, MaxElems)}

LongArgs ==
  [dtype : {"xyz"}, units : {Angstrom}, atom_format : {None},
   ghost_format : {None}, width : {4}, prec : {2}]

\* field widths and precisions, for the atom lines
LayoutRecords ==
  {Record(atoms, Bohr) : atoms \in AtomLists(CoreCatalogue, 1, MaxAtoms)}

LayoutArgs ==
  [dtype : {"xyz"}, units : {Angstrom, Bohr}, atom_format : {CustomAtomFormat},
   ghost_format : {<<>>, CustomGhostFormat}, width : {1, 6}, prec : {0, 1}]

----------------------------------------------------------------------------
(* The calls *)

Init ==
  /\ \/ molrec \in FullRecords /\ args \in FullArgs
     \/ molrec \in MalformedRecords /\ args \in PlainArgs
     \/ molrec \in LongRecords /\ args \in LongArgs
     \/ molrec \in LayoutRecords /\ args \in LayoutArgs
  /\ pc = "ready"
  /\ op = "none"
  /\ frame = <<>>
  /\ ret = NoRet

\* to_string(molrec, dtype, units, atom_format, ghost_format, width, prec)
CallToString ==
  /\ pc = "ready"
  /\ LET r == to_string(molrec, args)
     IN /\ molrec' = r.molrec
        /\ frame' = r.frame
        /\ ret' = r.ret
  /\ op' = "to_string"
  /\ pc' = "done"
  /\ UNCHANGED args

\* _atoms_formatter(molrec, geom, atom_format, ghost_format, width, prec, 2)
\* called on its own with the record's geometry as an (N, 3) array and
\* templates that are strings
CallAtomsFormatter ==
  /\ pc = "ready"
  /\ args.atom_format # None
  /\ args.ghost_format # None
  /\ Len(molrec.geom) % 3 = 0
  /\ LET geom == ScaledGeom(molrec, One).geom
     IN /\ ret' = _atoms_formatter(molrec, geom, args.atom_format,
                                   args.ghost_format, args.width, args.prec, 2)
        /\ frame' = ("geom" :> geom)
  /\ molrec' = molrec
  /\ op' = "_atoms_formatter"
  /\ pc' = "done"
  /\ UNCHANGED args

\* formula_generator(molrec['elem'])
CallFormulaGenerator ==
  /\ pc = "ready"
  /\ ret' = Return(formula_generator(molrec.elem))
  /\ molrec' = molrec
  /\ frame' = <<>>
  /\ op' = "formula_generator"
  /\ pc' = "done"
  /\ UNCHANGED args

Next == CallToString \/ CallAtomsFormatter \/ CallFormulaGenerator

Spec == Init /\ [][Next]_vars

----------------------------------------------------------------------------
(* Reading the results back *)

Done(f) == pc = "done" /\ op = f

Returned(f) == Done(f) /\ ret.kind = "return"

Raised(f, e) == Done(f) /\ ret.kind = "raise" /\ ret.exc = e

ValidUnits == {Angstrom, Bohr}

PerAtomFields == {"elem", "elez", "elea", "mass", "elbl", "real"}

\* the index of the first c in s, Len(s) + 1 if there is none
FirstIndex(s, c) ==
  IF \E i \in 1..Len(s) : s[i] = c
  THEN CHOOSE i \in 1..Len(s) : s[i] = c /\ \A j \in 1..(i - 1) : s[j] # c
  ELSE Len(s) + 1

\* the lines of a text in which every line ends with a newline
RECURSIVE SplitLines(_)
SplitLines(s) ==
  IF Len(s) = 0 THEN <<>>
  ELSE LET i == FirstIndex(s, Newline)
       IN <<SubSeq(s, 1, i - 1)>> \o SplitLines(SubSeq(s, i + 1, Len(s)))

\* the maximal space-free pieces of a line
RECURSIVE Fields(_)
Fields(s) ==
  IF Len(s) = 0 THEN <<>>
  ELSE IF s[1] = Space THEN Fields(Tail(s))
  ELSE LET i == FirstIndex(s, Space)
       IN <<SubSeq(s, 1, i - 1)>> \o Fields(SubSeq(s, i, Len(s)))

IsDigit(c) == \E d \in 1..10 : DigitChars[d] = c

DigitValue(c) == (CHOOSE d \in 1..10 : DigitChars[d] = c) - 1

RECURSIVE ParseNat(_)
ParseNat(ds) ==
  IF Len(ds) = 0 THEN 0
  ELSE 10 * ParseNat(SubSeq(ds, 1, Len(ds) - 1)) + DigitValue(ds[Len(ds)])

IsUpper(c) == c \in {"A", "C", "O"}

\* how far the run of characters satisfying P reaches from index i on
RECURSIVE RunEnd(_, _, _)
RunEnd(s, i, digits) ==
  IF i <= Len(s) /\ (IF digits THEN IsDigit(s[i]) ELSE ~IsUpper(s[i]) /\ ~IsDigit(s[i]))
  THEN RunEnd(s, i + 1, digits)
  ELSE i

\* a formula read back: each capital starts a symbol, its digits follow
RECURSIVE ParseFormula(_)
ParseFormula(s) ==
  IF Len(s) = 0 THEN <<>>
  ELSE LET e == RunEnd(s, 2, FALSE)
           d == RunEnd(s, e, TRUE)
       IN <<[el |-> SubSeq(s, 1, e - 1), digits |-> SubSeq(s, e, d - 1)]>>
          \o ParseFormula(SubSeq(s, d, Len(s)))

Occurrences(elem, el) == Cardinality({i \in 1..Len(elem) : elem[i] = el})

\* alphabetical rank of the element symbols of the catalogue
SymbolRank(el) ==
  CASE el = <<"A", "g">> -> 1 [] el = <<"C">> -> 2
    [] el = <<"C", "a">> -> 3 [] el = <<"O">> -> 4

SwapAt(q, i) ==
  [k \in 1..Len(q) |-> IF k = i THEN q[i + 1] ELSE IF k = i + 1 THEN q[i] ELSE q[k]]

\* number of geometry rows of the record
NAtoms == Len(molrec.geom) \div 3

\* the k-th smallest member of a set of numbers
RECURSIVE Kth(_, _)
Kth(S, k) ==
  LET lo == CHOOSE x \in S : \A y \in S : x <= y
  IN IF k = 1 THEN lo ELSE Kth(S \ {lo}, k - 1)

ExampleElems == <<<<"C">>, <<"C", "a">>, <<"O">>, <<"O">>, <<"A", "g">>>>

----------------------------------------------------------------------------
(* Claims *)

\* C1: for source and target units in {Angstrom, Bohr} to_string scales every
\* coordinate by the factor of the table: 1 for equal units, for Angstrom to
\* Bohr input_units_to_au if the record has it and 1/bohr2angstroms if not,
\* and bohr2angstroms for Bohr to Angstrom with or without input_units_to_au.
C1_FactorTable ==
  (Done("to_string") /\ molrec.units \in ValidUnits /\ args.units \in ValidUnits
     /\ Len(molrec.geom) % 3 = 0)
  => LET f == IF molrec.units = args.units THEN <<1, 1>>
              ELSE IF molrec.units = Angstrom
              THEN (IF "input_units_to_au" \in DOMAIN molrec
                    THEN molrec.input_units_to_au
                    ELSE <<bohr2angstroms[2], bohr2angstroms[1]>>)
              ELSE bohr2angstroms
     IN /\ "geom" \in DOMAIN frame
        /\ frame.factor = f
        /\ Len(frame.geom) = NAtoms
        /\ \A i \in 1..NAtoms : \A j \in 1..3 :
             LET x == molrec.geom[3 * (i - 1) + j]
             IN frame.geom[i][j] = <<x[1] * f[1], x[2] * f[2]>>

C1_Witness ==
  /\ Returned("to_string")
  /\ molrec.units = Bohr /\ args.units = Angstrom
  /\ "input_units_to_au" \in DOMAIN molrec
  /\ NAtoms >= 1
  /\ frame.factor = bohr2angstroms

\* C2: when the record's units or the target units are not Angstrom/Bohr,
\* to_string fails with a ValidationError that carries the offending value.
C2_ValidationError ==
  (Done("to_string")
     /\ (molrec.units \notin ValidUnits \/ args.units \notin ValidUnits))
  => /\ ret.kind = "raise"
     /\ ret.exc = "ValidationError"
     /\ ret.value = (IF args.units \notin ValidUnits THEN args.units
                     ELSE molrec.units)

\* C3: an xyz text has one count line, one name line and one line per
\* rendered atom; the count is the number of atom lines; ghost_format = ''
\* leaves the ghosts out of both, any other ghost_format renders every atom.
C3_XyzLineCount ==
  (Returned("to_string") /\ args.dtype = "xyz")
  => LET lines == SplitLines(ret.value)
         rendered == IF args.ghost_format = <<>>
                     THEN Cardinality({i \in 1..NAtoms : molrec.real[i]})
                     ELSE NAtoms
     IN /\ ret.value[Len(ret.value)] = Newline
        /\ Len(lines) = rendered + 2
        /\ Len(Fields(lines[1])) >= 1
        /\ \A k \in 1..Len(Fields(lines[1])[1]) : IsDigit(Fields(lines[1])[1][k])
        /\ ParseNat(Fields(lines[1])[1]) = Len(lines) - 2

C3_Witness ==
  /\ Returned("to_string") /\ args.dtype = "xyz"
  /\ args.ghost_format = <<>>
  /\ NAtoms = 2
  /\ molrec.real[1] /\ ~molrec.real[2]
  /\ Len(SplitLines(ret.value)) = 3

\* C4: a cfour text starts with the auto-generated comment line, whose first
\* character is not whitespace; whatever templates the caller passed, every
\* atom has a line, a real atom labelled with its element symbol and a
\* ghost labelled GH.
C4_CfourLabels ==
  (Returned("to_string") /\ args.dtype = "cfour")
  => LET lines == SplitLines(ret.value)
     IN /\ Len(lines) = NAtoms + 1
        /\ lines[1] = <<"a", "u", "t", "o", "-", "g", "e", "n", "e", "r", "a", "t", "e", "d", " ", "b", "y", " ", "q", "c", "d", "b", " ", "f", "r", "o", "m", " ", "m", "o", "l", "e", "c", "u", "l", "e", " ">>
                        \o (IF "name" \in DOMAIN molrec THEN molrec.name
                            ELSE frame.name)
        /\ SubSeq(lines[1], 1, 14) = <<"a", "u", "t", "o", "-", "g", "e", "n", "e", "r", "a", "t", "e", "d">>
        /\ lines[1][1] \notin {Space, "\t"}
        /\ \A i \in 1..NAtoms :
             Fields(lines[i + 1])[1] =
               (IF molrec.real[i] THEN molrec.elem[i] ELSE <<"G", "H">>)

C4_Witness ==
  /\ Returned("to_string") /\ args.dtype = "cfour"
  /\ args.ghost_format = <<>>
  /\ args.atom_format = CustomAtomFormat
  /\ NAtoms = 2
  /\ ~molrec.real[1] /\ molrec.real[2]
  /\ Fields(SplitLines(ret.value)[2])[1] = <<"G", "H">>

\* C5: an nwchem text ends with the line 'end', starts with 'geometry units '
\* and the lower-cased target units, and the line before 'end' is
\* 'symmetry ' and fix_symmetry exactly when the record has a non-empty
\* fix_symmetry, and is blank otherwise.
C5_NwchemFrame ==
  (Returned("to_string") /\ args.dtype = "nwchem")
  => LET lines == SplitLines(ret.value)
         n == Len(lines)
         symm == /\ "fix_symmetry" \in DOMAIN molrec
                 /\ molrec.fix_symmetry # None
                 /\ Len(molrec.fix_symmetry) > 0
     IN /\ ret.value[Len(ret.value)] = Newline
        /\ n = NAtoms + 3
        /\ lines[n] = <<"e", "n", "d">>
        /\ lines[1] = <<"g", "e", "o", "m", "e", "t", "r", "y", " ", "u", "n", "i", "t", "s", " ">> \o
                        (IF args.units = Bohr THEN <<"b", "o", "h", "r">>
                         ELSE <<"a", "n", "g", "s", "t", "r", "o", "m">>)
        /\ symm => lines[n - 1] = <<"s", "y", "m", "m", "e", "t", "r", "y", " ">> \o molrec.fix_symmetry
        /\ ~symm => lines[n - 1] = <<>>

C5_Witness ==
  /\ Returned("to_string") /\ args.dtype = "nwchem"
  /\ args.units = Bohr
  /\ "fix_symmetry" \in DOMAIN molrec /\ molrec.fix_symmetry = <<"c", "1">>
  /\ NAtoms = 2
  /\ SplitLines(ret.value)[4] = <<"s", "y", "m", "m", "e", "t", "r", "y", " ">> \o <<"c", "1">>

\* C6: formula_generator returns the distinct symbols in ascending
\* alphabetical order, each once, alone when it occurs once and followed by
\* its decimal count otherwise; the order of the list does not matter; the
\* list C, Ca, O, O, Ag gives AgCCaO2.
C6_Formula ==
  Returned("formula_generator")
  => LET elem == molrec.elem
         toks == ParseFormula(ret.value)
     IN /\ {toks[k].el : k \in 1..Len(toks)} = {elem[i] : i \in 1..Len(elem)}
        /\ \A k \in 1..(Len(toks) - 1) :
             SymbolRank(toks[k].el) < SymbolRank(toks[k + 1].el)
        /\ \A k \in 1..Len(toks) :
             LET cnt == Occurrences(elem, toks[k].el)
             IN IF cnt = 1 THEN toks[k].digits = <<>>
                ELSE /\ Len(toks[k].digits) > 0
                     /\ toks[k].digits[1] # "0"
                     /\ ParseNat(toks[k].digits) = cnt
        /\ \A i \in 1..(Len(elem) - 1) :
             formula_generator(SwapAt(elem, i)) = ret.value
        /\ elem = ExampleElems => ret.value = <<"A", "g", "C", "C", "a", "O", "2">>

C6_Witness ==
  /\ Returned("formula_generator")
  /\ molrec.elem = ExampleElems
  /\ ret.value = <<"A", "g", "C", "C", "a", "O", "2">>

\* C7 as stated: with valid units and a dtype other than xyz, cfour, nwchem
\* no error is raised and the call returns a value.
C7_ReturnsStale ==
  (Done("to_string") /\ molrec.units \in ValidUnits /\ args.units \in ValidUnits
     /\ WellFormed(molrec) /\ args.dtype \notin {"xyz", "cfour", "nwchem"})
  => ret.kind = "return"

\* C7 amended: with valid units, a well-formed record and a dtype other than
\* xyz, cfour, nwchem no branch assigns atoms or smol, and the final return
\* raises UnboundLocalError for smol; nothing is returned.
C7_UnboundLocal ==
  (Done("to_string") /\ molrec.units \in ValidUnits /\ args.units \in ValidUnits
     /\ Len(molrec.geom) % 3 = 0 /\ args.dtype \notin {"xyz", "cfour", "nwchem"})
  => /\ ret.kind = "raise"
     /\ ret.exc = "UnboundLocalError"
     /\ "smol" \notin DOMAIN frame
     /\ "atoms" \notin DOMAIN frame
     /\ "geom" \in DOMAIN frame

C7_Witness ==
  /\ Raised("to_string", "UnboundLocalError")
  /\ args.dtype = "psi4"
  /\ molrec.units = Angstrom /\ args.units = Bohr
  /\ NAtoms = 2

\* C8: no call changes the molecule record: after to_string,
\* _atoms_formatter or formula_generator, returning or raising, every field
\* of molrec is what it was before.
C8_RecordUnchanged == [][molrec' = molrec]_vars

C8_Witness ==
  /\ Returned("to_string")
  /\ "name" \notin DOMAIN molrec
  /\ frame.factor # <<1, 1>>
  /\ NAtoms = 2
  /\ \E i \in 1..2 : \E j \in 1..3 : frame.geom[i][j] # molrec.geom[3 * (i - 1) + j]

\* C9: _atoms_formatter returns the lines in ascending atom order, one per
\* real atom from atom_format, one per ghost from ghost_format unless that
\* is '', when the ghost has no line; a line is the label padded to width
\* and then the three coordinates of the same atom; elea is substituted as
\* '' exactly when it is -1.
C9_AtomLines ==
  Returned("_atoms_formatter")
  => LET lines == ret.value
         kept == {i \in 1..NAtoms : molrec.real[i] \/ args.ghost_format # <<>>}
     IN /\ Len(lines) = Cardinality(kept)
        /\ \A k \in 1..Len(lines) :
             LET i == Kth(kept, k)
                 info == [elea |-> IF molrec.elea[i] = -1 THEN <<>>
                                   ELSE str(molrec.elea[i]),
                          elez |-> str(molrec.elez[i]), elem |-> molrec.elem[i],
                          mass |-> str(molrec.mass[i]), elbl |-> molrec.elbl[i]]
                 label == format(IF molrec.real[i] THEN args.atom_format
                                 ELSE args.ghost_format, info)
                 padded == IF Len(label) >= args.width THEN Len(label) ELSE args.width
                 f == Fields(lines[k])
             IN /\ Len(lines[k]) > padded
                /\ SubSeq(lines[k], 1, Len(label)) = label
                /\ \A x \in (Len(label) + 1)..(padded + 1) : lines[k][x] = Space
                /\ f = <<label>> \o
                       [j \in 1..3 |->
                          FixedDigits(molrec.geom[3 * (i - 1) + j], args.prec)]

C9_Witness ==
  /\ Returned("_atoms_formatter")
  /\ args.ghost_format = <<>>
  /\ NAtoms = 2
  /\ ~molrec.real[1] /\ molrec.real[2] /\ molrec.elea[2] # -1
  /\ Len(ret.value) = 1

Shorter == \E k \in PerAtomFields : Len(molrec[k]) < NAtoms

====
